---- MODULE Spec2Model ----
(***************************************************************************)
(* Polaris instance-liveness core: the in-memory heartbeat checker         *)
(* (heartbeatmemory), the leader heartbeat record caches (leader) and the  *)
(* maintain job runner (admin/job).                                        *)
(***************************************************************************)
EXTENDS Integers, Sequences, FiniteSets, TLC

VARIABLES
    \* heartbeatmemory.MemoryHealthChecker
    hbRecords,        \* sync.Map: instance id -> HeartbeatRecord (domain = stored ids)
    suspendTimeSec,   \* int64, 0 until Suspend() is called
    nowSec,           \* commontime.CurrentMillisecond() / 1000
    checkRet,         \* <<>> or <<[req, resp]>>: the Check call that has just returned
    \* leader.LocalBeatRecordCache
    beatCache,        \* utils.SegmentMap: shard index -> (key -> RecordValue)
    lastWrite,        \* history: per key, <<v>> for the last Put not followed by a Del
    call,             \* the in-flight Get/Put/Del of the caller under observation
    \* leader.RemoteBeatRecordCache
    remoteRet,        \* <<>> or <<[keys, resp, out]>>: the Get call that has just ended
    \* job.MaintainJobs, one per server, and the store's elections
    startedJobs,      \* server -> names in mj.startedJobs
    cancel,           \* server -> mj.cancel: nil, or the goroutines holding its context
    starting,         \* server -> progress of a StartMaintianJobs call
    workers,          \* ticker goroutines in launch order, each with its context's Done
    leader,           \* job name -> server holding MAINTAIN_JOB/<name>, or "none"
    tally,            \* history: ticks handled, by a leader, and execute() calls
    \* discover/v1 DiscoverServer: the heartbeat access calls
    registered,       \* a heartbeat checker is in healthCheckServer.Checkers()
    rpcRet            \* <<>> or <<[op, ids, failAt, before, out]>>: the call that has just ended

checkerVars == <<hbRecords, suspendTimeSec, nowSec, checkRet>>
cacheVars == <<beatCache, lastWrite, call>>
remoteVars == <<remoteRet>>
jobVars == <<startedJobs, cancel, starting, workers, leader, tally>>
accessVars == <<registered, rpcRet>>

vars == <<checkerVars, cacheVars, remoteVars, jobVars, accessVars>>

----------------------------------------------------------------------------
(* Bounds of the model *)

MaxTime == 3        \* timestamps (seconds) range over 0..MaxTime
MaxExpire == 3      \* ExpireDurationSec ranges over 0..MaxExpire
MaxCount == 1       \* heartbeat sequence numbers range over 1..MaxCount

MaxBeat == 2        \* cache records carry times and counts in 1..MaxBeat
MaxBatch == 2       \* a cache call names at most MaxBatch keys or records
SoltNum == 2        \* shards of the SegmentMap (soltNum)
MaxResp == 2        \* a getter response carries at most MaxResp records
MaxConfigs == 2     \* a StartMaintianJobs call gets at most MaxConfigs configs
MaxWorkers == 2     \* ticker goroutines launched in all
MaxTicks == 4       \* ticks counted by the history of the election scenario

InstanceIds == {"i1", "i2"}
Hosts == {"h1"}

TimeVals == 0 .. MaxTime
ClockVals == 1 .. MaxTime
ExpireVals == 0 .. MaxExpire

----------------------------------------------------------------------------
(* heartbeatmemory: MemoryHealthChecker *)

HeartbeatRecord ==
    [Server : Hosts, CurTimeSec : TimeVals, Count : 1 .. MaxCount]

CheckRequest ==
    [InstanceId : InstanceIds, CurTimeSec : TimeVals,
     ExpireDurationSec : ExpireVals, Healthy : BOOLEAN]

\* Query with the heartbeat time taken from the wrong field of the record.
QueryCountAsTime(records, id) ==
    IF id \notin DOMAIN records
    THEN [Server |-> "", LastHeartbeatSec |-> 0, Count |-> 0, Exists |-> FALSE]
    ELSE [Server |-> records[id].Server,
          LastHeartbeatSec |-> records[id].Count,
          Count |-> records[id].Count,
          Exists |-> FALSE]

\* Query: a missing record answers LastHeartbeatSec 0 and zero values; the
\* Exists field of the response is never assigned.
Query(records, id) ==
    IF id \notin DOMAIN records
    THEN [Server |-> "", LastHeartbeatSec |-> 0, Count |-> 0, Exists |-> FALSE]
    ELSE [Server |-> records[id].Server,
          LastHeartbeatSec |-> records[id].CurTimeSec,
          Count |-> records[id].Count,
          Exists |-> FALSE]

\* skipCheck whose window opens one second late.
skipCheckLate(suspendTime, localCurTimeSec, expireDurationSec) ==
    /\ suspendTime > 0
    /\ localCurTimeSec > suspendTime
    /\ localCurTimeSec - suspendTime < expireDurationSec

skipCheck(suspendTime, localCurTimeSec, expireDurationSec) ==
    /\ suspendTime > 0
    /\ localCurTimeSec >= suspendTime
    /\ localCurTimeSec - suspendTime < expireDurationSec

\* The expiry test with a strict comparison.
heartbeatExpiredStrict(curTimeSec, lastHeartbeatTime, expireDurationSec) ==
    /\ curTimeSec > lastHeartbeatTime
    /\ curTimeSec - lastHeartbeatTime > expireDurationSec

\* The two nested conditions of Check that decide "heartbeat timed out".
heartbeatExpired(curTimeSec, lastHeartbeatTime, expireDurationSec) ==
    /\ curTimeSec > lastHeartbeatTime
    /\ curTimeSec - lastHeartbeatTime >= expireDurationSec

\* The expired branch without the suppression of a repeated "unhealthy".
expiredRespNoSuppress(checkResp, healthy) ==
    [checkResp EXCEPT !.Healthy = FALSE]

\* The expired branch of Check.
expiredResp(checkResp, healthy) ==
    IF healthy
    THEN [checkResp EXCEPT !.Healthy = FALSE]
    ELSE [checkResp EXCEPT !.Healthy = FALSE, !.StayUnchanged = TRUE]

\* The closing branch of Check: the heartbeat is in time.
aliveResp(checkResp, healthy) ==
    IF ~healthy
    THEN [checkResp EXCEPT !.Healthy = TRUE]
    ELSE [checkResp EXCEPT !.Healthy = TRUE, !.StayUnchanged = TRUE]

\* Check: the response starts as the zero CheckResponse with only
\* LastHeartbeatTimeSec set; each branch assigns what the code assigns.
Check(records, suspendTime, localCurTimeSec, request) ==
    LET lastHeartbeatTime == Query(records, request.InstanceId).LastHeartbeatSec
        curTimeSec == request.CurTimeSec
        checkResp == [Healthy |-> FALSE,
                      LastHeartbeatTimeSec |-> lastHeartbeatTime,
                      StayUnchanged |-> FALSE]
    IN  IF skipCheck(suspendTime, localCurTimeSec, request.ExpireDurationSec)
        THEN [checkResp EXCEPT !.StayUnchanged = TRUE]
        ELSE IF heartbeatExpired(curTimeSec, lastHeartbeatTime,
                                 request.ExpireDurationSec)
        THEN expiredResp(checkResp, request.Healthy)
        ELSE aliveResp(checkResp, request.Healthy)

CheckerInit ==
    /\ hbRecords = << >>
    /\ suspendTimeSec = 0
    /\ nowSec = 1
    /\ checkRet = << >>

\* Report stores the record unconditionally.
Report(id, host, t, count) ==
    /\ checkRet = << >>
    /\ hbRecords' = [x \in DOMAIN hbRecords \cup {id} |->
                        IF x = id
                        THEN [Server |-> host, CurTimeSec |-> t, Count |-> count]
                        ELSE hbRecords[x]]
    /\ UNCHANGED <<checkRet, suspendTimeSec, nowSec, cacheVars, remoteVars, accessVars, jobVars>>

Delete(id) ==
    /\ checkRet = << >>
    /\ hbRecords' = [x \in DOMAIN hbRecords \ {id} |-> hbRecords[x]]
    /\ UNCHANGED <<checkRet, suspendTimeSec, nowSec, cacheVars, remoteVars, accessVars, jobVars>>

Suspend ==
    /\ checkRet = << >>
    /\ suspendTimeSec' = nowSec
    /\ UNCHANGED <<checkRet, hbRecords, nowSec, cacheVars, remoteVars, accessVars, jobVars>>

\* The wall clock of the host: it moves, and it may be set back.
ClockSet(t) ==
    /\ checkRet = << >>
    /\ t # nowSec
    /\ nowSec' = t
    /\ UNCHANGED <<checkRet, hbRecords, suspendTimeSec, cacheVars, remoteVars, accessVars, jobVars>>

DoCheck(request) ==
    /\ checkRet = << >>
    /\ checkRet' = << [req |-> request,
                       resp |-> Check(hbRecords, suspendTimeSec, nowSec, request)] >>
    /\ UNCHANGED <<hbRecords, suspendTimeSec, nowSec, cacheVars, remoteVars, accessVars, jobVars>>

\* The caller takes the response; the checker serves one call at a time here.
CheckReturn ==
    /\ checkRet # << >>
    /\ checkRet' = << >>
    /\ UNCHANGED <<hbRecords, suspendTimeSec, nowSec, cacheVars, remoteVars, accessVars, jobVars>>

CheckerNext ==
    \/ \E id \in InstanceIds, h \in Hosts, t \in TimeVals, c \in 1 .. MaxCount :
          Report(id, h, t, c)
    \/ \E id \in InstanceIds : Delete(id)
    \/ Suspend
    \/ \E t \in ClockVals : ClockSet(t)
    \/ /\ checkRet = << >>
       /\ \E request \in CheckRequest : DoCheck(request)
    \/ CheckReturn

----------------------------------------------------------------------------
(* leader: SegmentMap and LocalBeatRecordCache *)

Keys == {"k1", "k2"}

RecordValue == [Server : Hosts, CurTimeSec : 1 .. MaxBeat, Count : 1 .. MaxBeat]

\* The zero value of RecordValue.
ZeroRecord == [Server |-> "", CurTimeSec |-> 0, Count |-> 0]

\* hashFunc of the cache: any fixed function of the key.
hashFunc(k) == IF k = "k1" THEN 7 ELSE 4

\* SegmentMap: a key lives in shard hash(key) mod N.
segIndex(k) == hashFunc(k) % SoltNum

SegGet(m, k) ==
    IF k \in DOMAIN m[segIndex(k)]
    THEN [val |-> m[segIndex(k)][k], ok |-> TRUE]
    ELSE [val |-> ZeroRecord, ok |-> FALSE]

SegPut(m, k, v) ==
    [m EXCEPT ![segIndex(k)] =
        [x \in DOMAIN m[segIndex(k)] \cup {k} |->
            IF x = k THEN v ELSE m[segIndex(k)][x]]]

SegDel(m, k) ==
    [m EXCEPT ![segIndex(k)] =
        [x \in DOMAIN m[segIndex(k)] \ {k} |-> m[segIndex(k)][x]]]

\* SegmentMap.Range: every stored entry, of every shard.
SegRange(m) ==
    [k \in UNION {DOMAIN m[i] : i \in DOMAIN m} |->
        m[CHOOSE i \in DOMAIN m : k \in DOMAIN m[i]][k]]

\* Snapshot of the local cache: an entry per stored key, built from the
\* record alone; its Exist field keeps the zero value.
localSnapshot(m) ==
    [k \in DOMAIN SegRange(m) |-> [Record |-> SegRange(m)[k], Exist |-> FALSE]]

\* One turn of the loop of Get: the entry built for a key.
localGetOne(m, key) ==
    [Record |-> SegGet(m, key).val, Exist |-> SegGet(m, key).ok]

\* A Get that leaves a missing key out of its result.
localGetIntoSkipMissing(ret, m, key) ==
    IF SegGet(m, key).ok
    THEN [x \in DOMAIN ret \cup {key} |->
             IF x = key THEN localGetOne(m, key) ELSE ret[x]]
    ELSE ret

\* ret[key] = &ReadBeatRecord{...}: the entry is stored for every key.
localGetInto(ret, m, key) ==
    [x \in DOMAIN ret \cup {key} |->
        IF x = key THEN localGetOne(m, key) ELSE ret[x]]

\* A Put that keeps the stored record when the new one is not newer.
localPutIfNewer(m, key, record) ==
    IF SegGet(m, key).ok /\ SegGet(m, key).val.Count > record.Count
    THEN m
    ELSE SegPut(m, key, record)

\* One turn of the loop of Put.
localPutOne(m, key, record) == SegPut(m, key, record)

\* One turn of the loop of Del.
localDelOne(m, key) == SegDel(m, key)

KeyLists == UNION {[1 .. n -> Keys] : n \in 1 .. MaxBatch}

IdleCall ==
    [op |-> "idle", keys |-> << >>, left |-> 0, ret |-> << >>,
     expect |-> << >>, mark |-> FALSE]

\* What the history says a Get of k returns.
FromHistory(k) ==
    IF lastWrite[k] = << >>
    THEN [Record |-> ZeroRecord, Exist |-> FALSE]
    ELSE [Record |-> lastWrite[k][1], Exist |-> TRUE]

CacheInit ==
    /\ beatCache = [i \in 0 .. SoltNum - 1 |-> << >>]
    /\ lastWrite = [k \in Keys |-> << >>]
    /\ call = IdleCall

\* Get(keys...) is called: ret is the empty map.
GetCall(keys) ==
    /\ call.op = "idle"
    /\ call' = [IdleCall EXCEPT !.op = "Get", !.keys = keys, !.left = Len(keys)]
    /\ UNCHANGED <<beatCache, lastWrite, checkerVars, remoteVars, accessVars, jobVars>>

\* One turn of the loop of Get, for keys[i].
GetStep ==
    /\ call.op = "Get"
    /\ call.left > 0
    /\ LET key == call.keys[Len(call.keys) - call.left + 1]
           put(f, v) == [x \in DOMAIN f \cup {key} |-> IF x = key THEN v ELSE f[x]]
       IN  call' = [call EXCEPT !.left = @ - 1,
                                !.ret = localGetInto(@, beatCache, key),
                                !.expect = put(@, FromHistory(key))]
    /\ UNCHANGED <<beatCache, lastWrite, checkerVars, remoteVars, accessVars, jobVars>>

\* Put(records...) and Del(keys...) are called with n arguments; the arguments
\* are drawn as the loop reaches them.
PutCall(n) ==
    /\ call.op = "idle"
    /\ call' = [IdleCall EXCEPT !.op = "Put", !.left = n]
    /\ UNCHANGED <<beatCache, lastWrite, checkerVars, remoteVars, accessVars, jobVars>>

PutStep(key, record) ==
    /\ call.op = "Put"
    /\ call.left > 0
    /\ beatCache' = localPutOne(beatCache, key, record)
    /\ lastWrite' = [lastWrite EXCEPT ![key] = <<record>>]
    /\ call' = [call EXCEPT !.left = @ - 1,
                            !.keys = Append(@, key),
                            !.mark =
                                /\ lastWrite[key] # << >>
                                /\ lastWrite[key][1].Count > record.Count
                                /\ lastWrite[key][1].CurTimeSec > record.CurTimeSec]
    /\ UNCHANGED <<checkerVars, remoteVars, accessVars, jobVars>>

DelCall(n) ==
    /\ call.op = "idle"
    /\ call' = [IdleCall EXCEPT !.op = "Del", !.left = n]
    /\ UNCHANGED <<beatCache, lastWrite, checkerVars, remoteVars, accessVars, jobVars>>

DelStep(key) ==
    /\ call.op = "Del"
    /\ call.left > 0
    /\ beatCache' = localDelOne(beatCache, key)
    /\ lastWrite' = [lastWrite EXCEPT ![key] = << >>]
    /\ call' = [call EXCEPT !.left = @ - 1, !.keys = Append(@, key),
                            !.mark = lastWrite[key] = << >>]
    /\ UNCHANGED <<checkerVars, remoteVars, accessVars, jobVars>>

\* Snapshot() is called and builds its map; the history keeps what Get
\* answers for the stored keys at that moment.
SnapshotCall ==
    /\ call.op = "idle"
    /\ call' = [IdleCall EXCEPT
                   !.op = "Snapshot",
                   !.ret = localSnapshot(beatCache),
                   !.expect = [k \in {x \in Keys : lastWrite[x] # << >>} |->
                                  localGetOne(beatCache, k)]]
    /\ UNCHANGED <<beatCache, lastWrite, checkerVars, remoteVars, accessVars, jobVars>>

\* The call returns.
CallReturn ==
    /\ call.op # "idle"
    /\ call.left = 0
    /\ call' = IdleCall
    /\ UNCHANGED <<beatCache, lastWrite, checkerVars, remoteVars, accessVars, jobVars>>

\* The other goroutines: one turn of the loop of a concurrent Put or Del.
OtherPut(key, record) ==
    /\ beatCache' = localPutOne(beatCache, key, record)
    /\ lastWrite' = [lastWrite EXCEPT ![key] = <<record>>]
    /\ UNCHANGED <<call, checkerVars, remoteVars, accessVars, jobVars>>

OtherDel(key) ==
    /\ beatCache' = localDelOne(beatCache, key)
    /\ lastWrite' = [lastWrite EXCEPT ![key] = << >>]
    /\ UNCHANGED <<call, checkerVars, remoteVars, accessVars, jobVars>>

CacheNext ==
    \/ \E keys \in KeyLists : GetCall(keys)
    \/ GetStep
    \/ \E n \in 1 .. MaxBatch : PutCall(n)
    \/ \E k \in Keys, r \in RecordValue : PutStep(k, r)
    \/ \E n \in 1 .. MaxBatch : DelCall(n)
    \/ \E k \in Keys : DelStep(k)
    \/ SnapshotCall
    \/ CallReturn
    \/ \E k \in Keys, r \in RecordValue : OtherPut(k, r)
    \/ \E k \in Keys : OtherDel(k)

----------------------------------------------------------------------------
(* leader: RemoteBeatRecordCache *)

\* Instance ids a peer may answer with: the keys and one nobody asked for.
WireIds == Keys \cup {"kx"}

\* apiservice.HeartbeatRecord as carried by GetHeartbeatsResponse.
WireRecord == [InstanceId : WireIds, LastHeartbeatSec : 1 .. MaxBeat, Exist : BOOLEAN]

\* What the getter may return: nil, or a response with any list of records.
GetterResponses ==
    {[nil |-> TRUE, records |-> << >>]} \cup
    {[nil |-> FALSE, records |-> rs] :
        rs \in UNION {[1 .. n -> WireRecord] : n \in 0 .. MaxResp}}

\* resp.GetRecords(): nil-safe.
GetRecords(resp) == IF resp.nil THEN << >> ELSE resp.records

\* The second loop of Get from records[i] on. ret maps keys to *ReadBeatRecord;
\* a lookup of an id that is not in ret yields a nil pointer, and the
\* assignment through it (val.Exist = false) is a nil dereference: the call
\* panics instead of returning.
RECURSIVE remoteFill(_, _, _)
remoteFill(ret, records, i) ==
    IF i > Len(records)
    THEN [panicked |-> FALSE, ret |-> ret]
    ELSE IF records[i].InstanceId \notin DOMAIN ret
    THEN [panicked |-> TRUE, ret |-> << >>]
    ELSE remoteFill(
            [ret EXCEPT ![records[i].InstanceId] =
                [Exist |-> records[i].Exist,
                 Record |-> [Server |-> "",
                             CurTimeSec |-> records[i].LastHeartbeatSec,
                             Count |-> 0]]],
            records, i + 1)

\* RemoteBeatRecordCache.Get(keys...) against a getter that answers resp.
RemoteGet(keys, resp) ==
    remoteFill([k \in {keys[i] : i \in 1 .. Len(keys)} |->
                   [Exist |-> FALSE, Record |-> ZeroRecord]],
               GetRecords(resp), 1)

\* RemoteBeatRecordCache.Snapshot(): the empty map.
remoteSnapshot == << >>

RemoteInit == remoteRet = << >>

RemoteGetCall(keys, resp) ==
    /\ remoteRet = << >>
    /\ remoteRet' = << [keys |-> keys, resp |-> resp, out |-> RemoteGet(keys, resp)] >>
    /\ UNCHANGED <<checkerVars, cacheVars, jobVars, accessVars>>

\* The call has ended (returned, or unwound by the panic).
RemoteGetEnd ==
    /\ remoteRet # << >>
    /\ remoteRet' = << >>
    /\ UNCHANGED <<checkerVars, cacheVars, jobVars, accessVars>>

RemoteNext ==
    \/ /\ remoteRet = << >>
       /\ \E keys \in KeyLists, resp \in GetterResponses : RemoteGetCall(keys, resp)
    \/ RemoteGetEnd

----------------------------------------------------------------------------
(* discover/v1: BatchGetHeartbeat and BatchDelHeartbeat over the checker *)

\* req.GetInstanceIds(): any list of ids, the empty one too.
IdLists == UNION {[1 .. n -> InstanceIds] : n \in 0 .. MaxBatch}

\* The record BatchGetHeartbeat builds from the response of checker.Query.
getRecord(records, id) ==
    [InstanceId |-> id,
     LastHeartbeatSec |-> Query(records, id).LastHeartbeatSec,
     Exist |-> Query(records, id).Exists]

\* The loop of BatchGetHeartbeat from keys[i] on; checker.Query returns an
\* error at position failAt (0: at none), and the call then returns nil and
\* the error.
RECURSIVE getLoop(_, _, _, _, _)
getLoop(records, keys, i, failAt, acc) ==
    IF i > Len(keys) THEN [err |-> FALSE, records |-> acc]
    ELSE IF i = failAt THEN [err |-> TRUE, records |-> << >>]
    ELSE getLoop(records, keys, i + 1, failAt,
                 Append(acc, getRecord(records, keys[i])))

\* BatchGetHeartbeat: without a heartbeat checker the empty response.
BatchGetHeartbeat(reg, records, keys, failAt) ==
    IF ~reg THEN [err |-> FALSE, records |-> << >>]
    ELSE getLoop(records, keys, 1, failAt, << >>)

\* checker.Delete(id) of the memory checker.
deleteOne(records, id) == [x \in DOMAIN records \ {id} |-> records[x]]

\* A loop that goes on after a failed Delete.
RECURSIVE delLoopNoAbort(_, _, _, _)
delLoopNoAbort(records, keys, i, failAt) ==
    IF i > Len(keys) THEN [err |-> failAt \in 1 .. Len(keys), stored |-> records]
    ELSE IF i = failAt THEN delLoopNoAbort(records, keys, i + 1, failAt)
    ELSE delLoopNoAbort(deleteOne(records, keys[i]), keys, i + 1, failAt)

\* The loop of BatchDelHeartbeat from keys[i] on; checker.Delete returns an
\* error at position failAt (0: at none) and has then deleted nothing.
RECURSIVE delLoop(_, _, _, _)
delLoop(records, keys, i, failAt) ==
    IF i > Len(keys) THEN [err |-> FALSE, stored |-> records]
    ELSE IF i = failAt THEN [err |-> TRUE, stored |-> records]
    ELSE delLoop(deleteOne(records, keys[i]), keys, i + 1, failAt)

\* BatchDelHeartbeat: without a heartbeat checker the empty ok response.
BatchDelHeartbeat(reg, records, keys, failAt) ==
    IF ~reg THEN [err |-> FALSE, stored |-> records]
    ELSE delLoop(records, keys, 1, failAt)

\* The server runs with the heartbeat checker plugin.
AccessInit ==
    /\ registered = TRUE
    /\ rpcRet = << >>

\* The server runs with the heartbeat checker plugin, or without it.
AnyCheckers ==
    /\ registered \in BOOLEAN
    /\ rpcRet = << >>

GetHeartbeats(keys, failAt) ==
    /\ rpcRet = << >>
    /\ rpcRet' = << [op |-> "get", ids |-> keys, failAt |-> failAt,
                     before |-> hbRecords,
                     out |-> BatchGetHeartbeat(registered, hbRecords, keys,
                                               failAt)] >>
    /\ UNCHANGED <<registered, checkerVars, cacheVars, remoteVars, jobVars>>

DelHeartbeats(keys, failAt) ==
    /\ rpcRet = << >>
    /\ LET r == BatchDelHeartbeat(registered, hbRecords, keys, failAt)
       IN  /\ hbRecords' = r.stored
           /\ rpcRet' = << [op |-> "del", ids |-> keys, failAt |-> failAt,
                            before |-> hbRecords,
                            out |-> [err |-> r.err, records |-> << >>]] >>
    /\ UNCHANGED <<registered, suspendTimeSec, nowSec, checkRet,
                   cacheVars, remoteVars, jobVars>>

\* The caller takes the response.
RpcReturn ==
    /\ rpcRet # << >>
    /\ rpcRet' = << >>
    /\ UNCHANGED <<registered, checkerVars, cacheVars, remoteVars, jobVars>>

\* The access calls of the server, one at a time, between the heartbeats
\* reported to the checker and the records deleted from it.
AccessNext ==
    \/ /\ rpcRet = << >>
       /\ \E id \in InstanceIds, h \in Hosts, t \in TimeVals, c \in 1 .. MaxCount :
             Report(id, h, t, c)
    \/ /\ rpcRet = << >>
       /\ \E id \in InstanceIds : Delete(id)
    \/ /\ rpcRet = << >>
       /\ \E keys \in IdLists : \E failAt \in 0 .. Len(keys) :
             GetHeartbeats(keys, failAt)
    \/ /\ rpcRet = << >>
       /\ \E keys \in IdLists : \E failAt \in 0 .. Len(keys) :
             DelHeartbeats(keys, failAt)
    \/ RpcReturn

----------------------------------------------------------------------------
(* admin/job: MaintainJobs and runAdminJob *)

Servers == {"s1", "s2"}

\* mj.jobs as NewMaintainJobs fills it.
Jobs ==
    {"DeleteUnHealthyInstance", "DeleteEmptyAutoCreatedService",
     "CleanDeletedInstances", "CleanDeletedClients"}

\* Names a JobConfig may carry: two registered jobs and an unknown one.
ConfigNames == {"CleanDeletedInstances", "CleanDeletedClients", "NoSuchJob"}

JobConfig == [Name : ConfigNames, Enable : BOOLEAN]

\* store.IsLeader(ElectionKeyMaintainJobPrefix + name) asked by server srv.
IsLeader(srv, name) == leader[name] = srv

\* A server campaigns on a key once StartLeaderElection succeeded for it, which
\* is exactly when a ticker was launched for that name.
Campaigning(srv, name) ==
    \E i \in DOMAIN workers : workers[i].srv = srv /\ workers[i].name = name

\* No call on the job: the worker is between two ticks.
NoCalls == [clear |-> 0, execute |-> 0]

\* The body with the leader test inverted.
tickBodyInverted(isLeader) ==
    IF isLeader
    THEN [clear |-> 1, execute |-> 0]
    ELSE [clear |-> 0, execute |-> 1]

\* The body that executes on every tick.
tickBodyAlways(isLeader) == [clear |-> 0, execute |-> 1]

\* f of runAdminJob: the calls one tick makes on the job.
tickBody(isLeader) ==
    IF ~isLeader
    THEN [clear |-> 1, execute |-> 0]
    ELSE [clear |-> 0, execute |-> 1]

\* A turn that launches the ticker before it looks at the result of
\* StartLeaderElection.
startOneLaunchEarly(started, cfg, initOk, electOk) ==
    IF ~cfg.Enable
    THEN [err |-> "", launch |-> FALSE, did |-> << >>]
    ELSE IF cfg.Name \notin Jobs
    THEN [err |-> "not exist", launch |-> FALSE, did |-> << >>]
    ELSE IF cfg.Name \in started
    THEN [err |-> "duplicated", launch |-> FALSE, did |-> << >>]
    ELSE IF ~initOk
    THEN [err |-> "fail to init", launch |-> FALSE, did |-> <<"init">>]
    ELSE [err |-> IF electOk THEN "" ELSE "election", launch |-> TRUE,
          did |-> <<"init", "StartLeaderElection", "runAdminJob">>]

\* One turn of the loop of StartMaintianJobs over cfg: the error it returns
\* ("" for none), whether runAdminJob launched a ticker, and the calls the
\* turn made, in order.
startOne(started, cfg, initOk, electOk) ==
    IF ~cfg.Enable
    THEN [err |-> "", launch |-> FALSE, did |-> << >>]
    ELSE IF cfg.Name \notin Jobs
    THEN [err |-> "not exist", launch |-> FALSE, did |-> << >>]
    ELSE IF cfg.Name \in started
    THEN [err |-> "duplicated", launch |-> FALSE, did |-> << >>]
    ELSE IF ~initOk
    THEN [err |-> "fail to init", launch |-> FALSE, did |-> <<"init">>]
    ELSE IF ~electOk
    THEN [err |-> "election", launch |-> FALSE,
          did |-> <<"init", "StartLeaderElection">>]
    ELSE [err |-> "", launch |-> TRUE,
          did |-> <<"init", "StartLeaderElection", "runAdminJob">>]

\* What may go wrong in one turn of the loop: job.init or StartLeaderElection
\* returns an error (in a turn that calls them).
Faults == {"none", "init", "elect"}

\* No StartMaintianJobs call is running. A running call carries the number
\* of configs left, and of its last turn the config, the calls and the error.
NoStart ==
    [active |-> FALSE, left |-> 0, name |-> "", enable |-> FALSE,
     did |-> << >>, err |-> ""]

\* The process of server s runs: no goroutine of it has panicked.
Up(s) ==
    \A i \in DOMAIN workers : workers[i].srv = s => workers[i].pc # "panic"

\* No StartMaintianJobs call is inside its loop. A call is taken as one step
\* of its server: nothing is interleaved with the turns of its loop.
Quiet == \A s \in Servers : ~starting[s].active

JobInit ==
    /\ startedJobs = [s \in Servers |-> {}]
    /\ cancel = [s \in Servers |-> [nil |-> TRUE, scope |-> {}]]
    /\ starting = [s \in Servers |-> NoStart]
    /\ workers = << >>
    /\ leader = [n \in Jobs |-> "none"]
    /\ tally = [ticks |-> 0, leaderTicks |-> 0, execs |-> 0]

\* StartMaintianJobs(configs) with n configs is entered: a fresh context is
\* made and its cancel function replaces mj.cancel. The configs are drawn as
\* the loop reaches them.
StartMaintianJobs(s, n) ==
    /\ Quiet
    /\ Up(s)
    /\ cancel' = [cancel EXCEPT ![s] = [nil |-> FALSE, scope |-> {}]]
    /\ starting' = [starting EXCEPT ![s] = [NoStart EXCEPT !.active = n > 0,
                                                           !.left = n]]
    /\ UNCHANGED <<startedJobs, workers, leader, tally,
                   checkerVars, cacheVars, remoteVars, accessVars>>

\* One turn of the loop over cfg: what it does to the tickers, to the context
\* of this call and to mj.startedJobs. runAdminJob starts a goroutine that
\* selects on the context of this call.
loopTurn(s, cfg, fault) ==
    LET r == startOne(startedJobs[s], cfg, fault # "init", fault # "elect")
    IN  /\ fault # "none" => startOne(startedJobs[s], cfg, TRUE, TRUE).launch
        /\ r.launch => Len(workers) < MaxWorkers
        /\ workers' =
              IF r.launch
              THEN Append(workers,
                          [srv |-> s, name |-> cfg.Name, pc |-> "wait",
                           tick |-> FALSE, sawLeader |-> FALSE,
                           calls |-> NoCalls, ctxDone |-> FALSE])
              ELSE workers
        /\ cancel' =
              IF r.launch
              THEN [cancel EXCEPT ![s].scope = @ \cup {Len(workers) + 1}]
              ELSE cancel
        /\ startedJobs' =
              IF r.launch
              THEN [startedJobs EXCEPT ![s] = @ \cup {cfg.Name}]
              ELSE startedJobs

\* One turn of the loop; an error returns from StartMaintianJobs at once, and
\* so does the end of the configs.
StartStep(s, cfg, fault) ==
    /\ starting[s].active
    /\ starting[s].left > 0
    /\ starting[s].err = ""
    /\ loopTurn(s, cfg, fault)
    /\ LET r == startOne(startedJobs[s], cfg, fault # "init", fault # "elect")
       IN  starting' =
              [starting EXCEPT ![s] =
                  IF r.err # "" \/ starting[s].left = 1
                  THEN NoStart
                  ELSE [NoStart EXCEPT !.active = TRUE,
                                       !.left = starting[s].left - 1]]
    /\ UNCHANGED <<leader, tally, checkerVars, cacheVars, remoteVars, accessVars>>

\* One turn of the loop; the last turn of a call leaves the history of what
\* it did until the call returns.
StartTurn(s, cfg, fault) ==
    /\ starting[s].active
    /\ starting[s].left > 0
    /\ starting[s].err = ""
    /\ loopTurn(s, cfg, fault)
    /\ LET r == startOne(startedJobs[s], cfg, fault # "init", fault # "elect")
       IN  starting' =
              [starting EXCEPT ![s] =
                  IF r.err # "" \/ starting[s].left = 1
                  THEN [active |-> TRUE, left |-> 0,
                        name |-> cfg.Name, enable |-> cfg.Enable,
                        did |-> r.did, err |-> r.err]
                  ELSE [NoStart EXCEPT !.active = TRUE,
                                       !.left = starting[s].left - 1]]
    /\ UNCHANGED <<leader, tally, checkerVars, cacheVars, remoteVars, accessVars>>

\* StartMaintianJobs returns: the error of its last turn, or nil after the
\* last config.
StartReturn(s) ==
    /\ starting[s].active
    /\ starting[s].left = 0
    /\ starting' = [starting EXCEPT ![s] = NoStart]
    /\ UNCHANGED <<startedJobs, cancel, workers, leader, tally,
                   checkerVars, cacheVars, remoteVars, accessVars>>

\* A Stop that cancels the context and keeps mj.startedJobs.
StopKeepsStarted(s) ==
    /\ Quiet
    /\ Up(s)
    /\ workers' =
          [i \in DOMAIN workers |->
              IF ~cancel[s].nil /\ i \in cancel[s].scope
              THEN [workers[i] EXCEPT !.ctxDone = TRUE]
              ELSE workers[i]]
    /\ UNCHANGED <<startedJobs, cancel, starting, leader, tally,
                   checkerVars, cacheVars, remoteVars, accessVars>>

\* mj.cancel() closes Done of the context of the latest Start only.
StopMaintainJobs(s) ==
    /\ Quiet
    /\ Up(s)
    /\ workers' =
          [i \in DOMAIN workers |->
              IF ~cancel[s].nil /\ i \in cancel[s].scope
              THEN [workers[i] EXCEPT !.ctxDone = TRUE]
              ELSE workers[i]]
    /\ startedJobs' = [startedJobs EXCEPT ![s] = {}]
    /\ UNCHANGED <<cancel, starting, leader, tally,
                   checkerVars, cacheVars, remoteVars, accessVars>>

\* The ticker sends on its channel of capacity 1; a tick that finds the
\* channel full is dropped.
TickerFire(w) ==
    /\ Quiet
    /\ w \in DOMAIN workers
    /\ Up(workers[w].srv)
    /\ workers[w].pc \notin {"done", "panic"}
    /\ ~workers[w].tick
    /\ workers' = [workers EXCEPT ![w].tick = TRUE]
    /\ UNCHANGED <<startedJobs, cancel, starting, leader, tally,
                   checkerVars, cacheVars, remoteVars, accessVars>>

\* A worker that starts f() for a tick while an earlier f() is still running.
handleTickSpawn(w) ==
    /\ Quiet
    /\ w \in DOMAIN workers
    /\ Up(workers[w].srv)
    /\ workers[w].pc \in {"wait", "execute", "clear"}
    /\ workers[w].tick
    /\ LET isLeader == IsLeader(workers[w].srv, workers[w].name)
           body == tickBody(isLeader)
       IN  workers' = [workers EXCEPT
                          ![w].tick = FALSE,
                          ![w].sawLeader = isLeader,
                          ![w].calls = [clear |-> @.clear + body.clear,
                                        execute |-> @.execute + body.execute],
                          ![w].pc = IF body.execute > 0 THEN "execute"
                                    ELSE "clear"]
    /\ UNCHANGED <<startedJobs, cancel, starting, leader,
                   checkerVars, cacheVars, remoteVars, accessVars>>

\* case <-ticker.C: f() runs; select may choose this case also when ctx.Done()
\* is ready. The worker is then inside clear() or execute().
handleTick(w) ==
    /\ Quiet
    /\ w \in DOMAIN workers
    /\ Up(workers[w].srv)
    /\ workers[w].pc = "wait"
    /\ workers[w].tick
    /\ LET isLeader == IsLeader(workers[w].srv, workers[w].name)
           body == tickBody(isLeader)
       IN  workers' = [workers EXCEPT
                          ![w].tick = FALSE,
                          ![w].sawLeader = isLeader,
                          ![w].calls = body,
                          ![w].pc = IF body.execute > 0 THEN "execute"
                                    ELSE IF body.clear > 0 THEN "clear"
                                    ELSE "wait"]
    /\ UNCHANGED <<startedJobs, cancel, starting, leader,
                   checkerVars, cacheVars, remoteVars, accessVars>>

\* A tick is handled.
JobTick(w) == handleTick(w) /\ UNCHANGED tally

\* A tick is handled and the history counts it.
TickHandle(w) ==
    /\ handleTick(w)
    /\ tally.ticks < MaxTicks
    /\ tally' = [ticks |-> tally.ticks + 1,
                 leaderTicks |-> tally.leaderTicks +
                     (IF leader[workers[w].name] = workers[w].srv THEN 1 ELSE 0),
                 execs |-> tally.execs +
                     (IF workers'[w].pc = "execute" THEN 1 ELSE 0)]

\* clear() or execute() returns and f with it.
BodyReturn(w) ==
    /\ Quiet
    /\ w \in DOMAIN workers
    /\ Up(workers[w].srv)
    /\ workers[w].pc \in {"execute", "clear"}
    /\ workers' = [workers EXCEPT ![w].pc = "wait", ![w].sawLeader = FALSE,
                                  ![w].calls = NoCalls]
    /\ UNCHANGED <<startedJobs, cancel, starting, leader, tally,
                   checkerVars, cacheVars, remoteVars, accessVars>>

\* case <-ctx.Done(): the goroutine returns.
WorkerExit(w) ==
    /\ Quiet
    /\ w \in DOMAIN workers
    /\ Up(workers[w].srv)
    /\ workers[w].pc = "wait"
    /\ workers[w].ctxDone
    /\ workers' = [workers EXCEPT ![w].pc = "done", ![w].tick = FALSE]
    /\ UNCHANGED <<startedJobs, cancel, starting, leader, tally,
                   checkerVars, cacheVars, remoteVars, accessVars>>

\* execute() panics. The goroutine of runAdminJob has no recover: the panic
\* unwinds it and ends the process, and every goroutine of the server with it.
ExecutePanic(w) ==
    /\ Quiet
    /\ w \in DOMAIN workers
    /\ Up(workers[w].srv)
    /\ workers[w].pc = "execute"
    /\ workers' =
          [i \in DOMAIN workers |->
              IF workers[i].srv # workers[w].srv THEN workers[i]
              ELSE [workers[i] EXCEPT
                       !.pc = IF i = w THEN "panic" ELSE "done",
                       !.tick = FALSE, !.sawLeader = FALSE, !.calls = NoCalls]]
    /\ UNCHANGED <<startedJobs, cancel, starting, leader, tally,
                   checkerVars, cacheVars, remoteVars, accessVars>>

\* The store moves the leadership of a key: to a campaigning server, or to
\* none. At most one server holds a key.
LeaderChange(name, x) ==
    /\ Quiet
    /\ leader[name] # x
    /\ x = "none" \/ (Campaigning(x, name) /\ Up(x))
    /\ leader' = [leader EXCEPT ![name] = x]
    /\ UNCHANGED <<startedJobs, cancel, starting, workers, tally,
                   checkerVars, cacheVars, remoteVars, accessVars>>

\* One server's MaintainJobs under any calls of Start and Stop.
JobNext ==
    \/ \E n \in 0 .. MaxConfigs : StartMaintianJobs("s1", n)
    \/ \E cfg \in JobConfig, fault \in Faults : StartStep("s1", cfg, fault)
    \/ StopMaintainJobs("s1")
    \/ \E w \in 1 .. MaxWorkers : TickerFire(w)
    \/ \E w \in 1 .. MaxWorkers : JobTick(w)
    \/ \E w \in 1 .. MaxWorkers : BodyReturn(w)
    \/ \E w \in 1 .. MaxWorkers : ExecutePanic(w)
    \/ \E w \in 1 .. MaxWorkers : WorkerExit(w)
    \/ \E name \in Jobs, x \in Servers \cup {"none"} : LeaderChange(name, x)

\* The ticker fires while its worker waits: the bodies of the job are
\* shorter than its interval.
TickerFireIdle(w) ==
    /\ w \in DOMAIN workers
    /\ workers[w].pc = "wait"
    /\ TickerFire(w)

\* One server's MaintainJobs with the history of the last turn of every
\* Start; no execute() panics and no tick fires during a body.
StartNext ==
    \/ \E n \in 1 .. MaxConfigs : StartMaintianJobs("s1", n)
    \/ \E cfg \in JobConfig, fault \in Faults : StartTurn("s1", cfg, fault)
    \/ StartReturn("s1")
    \/ StopMaintainJobs("s1")
    \/ \E w \in 1 .. MaxWorkers : TickerFireIdle(w)
    \/ \E w \in 1 .. MaxWorkers : JobTick(w)
    \/ \E w \in 1 .. MaxWorkers : BodyReturn(w)
    \/ \E w \in 1 .. MaxWorkers : WorkerExit(w)
    \/ \E name \in Jobs, x \in Servers \cup {"none"} : LeaderChange(name, x)

\* The job both servers run in the election scenario.
SharedJob == [Name |-> "CleanDeletedInstances", Enable |-> TRUE]

\* Two servers start the same job once and campaign on the same key.
ElectNext ==
    \/ \E s \in Servers : cancel[s].nil /\ StartMaintianJobs(s, 1)
    \/ \E s \in Servers : StartStep(s, SharedJob, "none")
    \/ \E w \in 1 .. MaxWorkers : TickerFire(w)
    \/ \E w \in 1 .. MaxWorkers : TickHandle(w)
    \/ \E w \in 1 .. MaxWorkers : BodyReturn(w)
    \/ \E x \in Servers \cup {"none"} : LeaderChange(SharedJob.Name, x)

----------------------------------------------------------------------------
(* Specifications *)

Init == CheckerInit /\ CacheInit /\ RemoteInit /\ JobInit /\ AccessInit

SpecCheck == Init /\ [][CheckerNext]_vars
SpecCache == Init /\ [][CacheNext]_vars
SpecRemote == Init /\ [][RemoteNext]_vars
SpecJob == Init /\ [][JobNext]_vars
SpecElect == Init /\ [][ElectNext]_vars
SpecStart == Init /\ [][StartNext]_vars
InitAccess == CheckerInit /\ CacheInit /\ RemoteInit /\ JobInit /\ AnyCheckers
SpecAccess == InitAccess /\ [][AccessNext]_vars
Spec == SpecJob

----------------------------------------------------------------------------
(* Properties of the heartbeat checker *)

\* What the check that has just returned was asked and answered.
LastReq == checkRet[1].req
LastResp == checkRet[1].resp

\* The stored last heartbeat of the instance of the last check, 0 without record.
StoredLast ==
    IF LastReq.InstanceId \in DOMAIN hbRecords
    THEN hbRecords[LastReq.InstanceId].CurTimeSec
    ELSE 0

\* now lies in [suspend_time, suspend_time + expire) of a recorded suspend.
InSuspendWindow(expire) ==
    /\ suspendTimeSec > 0
    /\ suspendTimeSec <= nowSec
    /\ nowSec < suspendTimeSec + expire

TurnsUnhealthy(resp) == resp.Healthy = FALSE /\ resp.StayUnchanged = FALSE

\* C3: with prior healthy=true, Check answers a transition to unhealthy
\* (Healthy=false, StayUnchanged=false) exactly when C > L, C - L >= E and the
\* checker is not in its suspend window; C <= L never does, E = 0 with C > L
\* always does.
C3_ExpiryIff ==
    (checkRet # << >> /\ LastReq.Healthy) =>
        LET C == LastReq.CurTimeSec
            E == LastReq.ExpireDurationSec
            L == StoredLast
        IN  /\ TurnsUnhealthy(LastResp) <=>
                   (C > L /\ C - L >= E /\ ~InSuspendWindow(E))
            /\ (C <= L) => ~TurnsUnhealthy(LastResp)
            /\ (E = 0 /\ C > L) => TurnsUnhealthy(LastResp)

C3_Witness ==
    /\ checkRet # << >>
    /\ LastReq.Healthy
    /\ LastReq.InstanceId \in DOMAIN hbRecords
    /\ LastReq.ExpireDurationSec > 0
    /\ LastReq.CurTimeSec - StoredLast = LastReq.ExpireDurationSec
    /\ TurnsUnhealthy(LastResp)

\* C4 as stated: a Check inside the suspend window answers StayUnchanged=true
\* and its response does not carry Healthy=false.
C4_NoHealthyFalseField ==
    (checkRet # << >> /\ InSuspendWindow(LastReq.ExpireDurationSec)) =>
        (LastResp.StayUnchanged = TRUE /\ LastResp.Healthy # FALSE)

\* C4 amended: a Check inside the suspend window answers StayUnchanged=true,
\* so it is never a transition to unhealthy; the Healthy field of that
\* response is the zero value false and LastHeartbeatTimeSec the stored time.
C4_SuspendStaysUnchanged ==
    (checkRet # << >> /\ InSuspendWindow(LastReq.ExpireDurationSec)) =>
        /\ LastResp.StayUnchanged = TRUE
        /\ ~TurnsUnhealthy(LastResp)
        /\ LastResp.Healthy = FALSE
        /\ LastResp.LastHeartbeatTimeSec = StoredLast

\* A healthy instance whose heartbeat has timed out is checked at the very
\* second of the suspend.
C4_Witness ==
    /\ checkRet # << >>
    /\ InSuspendWindow(LastReq.ExpireDurationSec)
    /\ nowSec = suspendTimeSec
    /\ LastReq.Healthy
    /\ LastReq.CurTimeSec > StoredLast
    /\ LastReq.CurTimeSec - StoredLast >= LastReq.ExpireDurationSec
    /\ LastResp.StayUnchanged

\* The health the caller holds after applying a response.
ApplyResp(healthy, resp) == IF resp.StayUnchanged THEN healthy ELSE resp.Healthy

\* C5: after a Check whose result the caller applied, a second Check with the
\* same record, times and suspend state answers StayUnchanged=true.
C5_Idempotent ==
    checkRet # << >> =>
        LET second == [LastReq EXCEPT
                          !.Healthy = ApplyResp(LastReq.Healthy, LastResp)]
        IN  Check(hbRecords, suspendTimeSec, nowSec, second).StayUnchanged = TRUE

C5_Witness ==
    /\ checkRet # << >>
    /\ LastResp.StayUnchanged = FALSE
    /\ LastResp.Healthy = FALSE
    /\ Check(hbRecords, suspendTimeSec, nowSec,
             [LastReq EXCEPT !.Healthy = FALSE]).StayUnchanged = TRUE

\* C6: outside the suspend window StayUnchanged is true exactly when the new
\* health (false iff C > L and C - L >= E) equals the prior health; when they
\* differ the response carries the new health. In every case
\* LastHeartbeatTimeSec is the stored cur_time_sec, 0 without record.
C6_SuppressIffSame ==
    checkRet # << >> =>
        LET C == LastReq.CurTimeSec
            E == LastReq.ExpireDurationSec
            L == StoredLast
            newHealth == ~(C > L /\ C - L >= E)
        IN  /\ LastResp.LastHeartbeatTimeSec = L
            /\ ~InSuspendWindow(E) =>
                  /\ LastResp.StayUnchanged <=> (newHealth = LastReq.Healthy)
                  /\ (newHealth # LastReq.Healthy) => LastResp.Healthy = newHealth

\* A resumption: prior unhealthy, heartbeat in time, record stored.
C6_Witness ==
    /\ checkRet # << >>
    /\ ~InSuspendWindow(LastReq.ExpireDurationSec)
    /\ LastReq.InstanceId \in DOMAIN hbRecords
    /\ StoredLast > 0
    /\ ~LastReq.Healthy
    /\ LastResp.Healthy = TRUE
    /\ LastResp.StayUnchanged = FALSE

\* C17: a Check of an instance without stored record answers
\* StayUnchanged=true, for every prior health, cur_time and expire duration.
C17_MissingStaysUnchanged ==
    (checkRet # << >> /\ LastReq.InstanceId \notin DOMAIN hbRecords) =>
        LastResp.StayUnchanged = TRUE

----------------------------------------------------------------------------
(* Properties of the local heartbeat cache *)

KeysOf(seq) == {seq[i] : i \in 1 .. Len(seq)}

\* C7: whatever Put, Del and Get calls interleave, a Get of k answers the
\* record of the last Put of k that no Del of k followed, exist=false
\* otherwise; a Put overwrites also a record with a larger count and a newer
\* time, and only operations on k change what a Get of k answers.
C7_LastWriterWins ==
    /\ \A k \in Keys : localGetOne(beatCache, k) = FromHistory(k)
    /\ call.op = "Get" => \A k \in DOMAIN call.ret : call.ret[k] = call.expect[k]

\* A Put of the observed caller has just replaced a record by one with a
\* smaller count and an older time, and the older one is what is stored.
C7_Witness ==
    /\ call.op = "Put"
    /\ call.mark
    /\ call.keys # << >>
    /\ LET k == call.keys[Len(call.keys)]
       IN  /\ localGetOne(beatCache, k).Exist
           /\ localGetOne(beatCache, k).Record.Count < MaxBeat
           /\ \E other \in Keys \ {k} : localGetOne(beatCache, other).Exist

\* C8: a finished Get holds exactly the requested keys, a key that was not
\* stored when it was read has exist=false and the zero record; Get and a Del
\* of a missing key leave the stored contents as they were.
C8_GetTotal ==
    /\ [](call.op = "Get" =>
            /\ call.left = 0 => DOMAIN call.ret = KeysOf(call.keys)
            /\ DOMAIN call.ret \subseteq KeysOf(call.keys)
            /\ \A k \in DOMAIN call.ret :
                  ~call.expect[k].Exist =>
                      call.ret[k] = [Record |-> ZeroRecord, Exist |-> FALSE])
    /\ [][/\ GetStep => beatCache' = beatCache
          /\ \A k \in Keys :
                (lastWrite[k] = << >> /\ (DelStep(k) \/ OtherDel(k)))
                    => beatCache' = beatCache]_vars

\* A Get of two keys has finished: one key was missing, the other stored.
C8_Witness ==
    /\ call.op = "Get"
    /\ call.left = 0
    /\ \E k1, k2 \in DOMAIN call.ret :
          /\ ~call.ret[k1].Exist
          /\ call.ret[k2].Exist

\* C18: the map Snapshot() returns has exactly the stored keys, and for each
\* of them the entry Get answers for it: the stored record and exist=true;
\* the Snapshot() of the remote cache is empty.
C18_SnapshotAgreesWithGet ==
    /\ call.op = "Snapshot" =>
          /\ DOMAIN call.ret = DOMAIN call.expect
          /\ \A k \in DOMAIN call.ret :
                /\ call.ret[k] = call.expect[k]
                /\ call.ret[k].Exist = TRUE
    /\ remoteSnapshot = << >>

----------------------------------------------------------------------------
(* Properties of the remote heartbeat cache *)

LastGet == remoteRet[1]

\* The last record of the response for key k, as a sequence of 0 or 1 records.
LastRecordFor(records, k) ==
    LET at == {i \in 1 .. Len(records) : records[i].InstanceId = k}
    IN  IF at = {} THEN << >>
        ELSE << records[CHOOSE i \in at : \A j \in at : j <= i] >>

\* C9: Get completes normally for every response of the getter and returns a
\* map over exactly the requested keys: exist=false for a key without record,
\* the record's exist flag and last_heartbeat_sec (server and count zero) for
\* a key with one; records of ids that were not requested are ignored.
C9_RemoteGetTotal ==
    remoteRet # << >> =>
        /\ ~LastGet.out.panicked
        /\ DOMAIN LastGet.out.ret = KeysOf(LastGet.keys)
        /\ \A k \in KeysOf(LastGet.keys) :
              LET r == LastRecordFor(GetRecords(LastGet.resp), k)
              IN  LastGet.out.ret[k] =
                     IF r = << >>
                     THEN [Exist |-> FALSE, Record |-> ZeroRecord]
                     ELSE [Exist |-> r[1].Exist,
                           Record |-> [Server |-> "",
                                       CurTimeSec |-> r[1].LastHeartbeatSec,
                                       Count |-> 0]]

----------------------------------------------------------------------------
(* Properties of the job runner *)

\* Worker i takes a tick off its ticker channel in this step.
HandlesTick(i) ==
    /\ workers[i].pc = "wait"
    /\ workers[i].tick
    /\ ~workers'[i].tick
    /\ workers'[i].pc # "done"

\* C1: a tick calls execute(), once, exactly when IsLeader of the job's key is
\* true as the tick is handled; when it is false the tick calls clear() once
\* and execute() not at all. This holds for every tick of every worker.
C1_ExecuteIffLeader ==
    [][\A i \in DOMAIN workers :
          HandlesTick(i) =>
              /\ workers'[i].calls =
                    IF leader[workers[i].name] = workers[i].srv
                    THEN [clear |-> 0, execute |-> 1]
                    ELSE [clear |-> 1, execute |-> 0]
              /\ workers'[i].pc =
                    IF leader[workers[i].name] = workers[i].srv
                    THEN "execute" ELSE "clear"]_vars

\* One worker is inside execute() as leader of its job while the worker of
\* another job, whose key this server does not hold, is inside clear().
C1_Witness ==
    \E i, j \in DOMAIN workers :
        /\ workers[i].pc = "execute"
        /\ workers[i].calls = [clear |-> 0, execute |-> 1]
        /\ workers[j].pc = "clear"
        /\ workers[j].calls = [clear |-> 1, execute |-> 0]
        /\ leader[workers[j].name] = "none"

BothExecuting ==
    \E i, j \in DOMAIN workers :
        /\ workers[i].srv # workers[j].srv
        /\ workers[i].name = workers[j].name
        /\ workers[i].pc = "execute"
        /\ workers[j].pc = "execute"

\* C2 as stated: the two servers are never both inside execute() of the job,
\* and the executions number the ticks handled by a server that was leader.
C2_NeverBothExecuting ==
    /\ ~BothExecuting
    /\ tally.execs = tally.leaderTicks

\* C2 amended: the executions number the ticks handled by a server that was
\* leader as it handled them, and a server enters execute() only on such a
\* tick; two executions may overlap when the leadership moves during one.
C2_ExecsAreLeaderTicks ==
    /\ tally.execs = tally.leaderTicks
    /\ \A i \in DOMAIN workers : workers[i].pc = "execute" => workers[i].sawLeader

\* Ticks were handled on both sides, some by a follower; the leadership has
\* moved to the other server while the first is still inside execute().
C2_Witness ==
    /\ tally.execs >= 2
    /\ tally.ticks > tally.execs
    /\ \E i, j \in DOMAIN workers :
          /\ workers[i].srv # workers[j].srv
          /\ workers[i].pc = "execute"
          /\ leader[workers[i].name] = workers[j].srv
          /\ workers[j].pc = "clear"

\* C10: a goroutine of runAdminJob ends only through Done of its context, so
\* StopMaintainJobs ends every ticker launched before it only if, as it
\* returns, the context of every such ticker is cancelled.
C10_StopCancelsEveryTicker ==
    [][StopMaintainJobs("s1") =>
          \A i \in DOMAIN workers : workers'[i].ctxDone]_vars

\* The ticker goroutines of server s for job name n that run and whose
\* context is not cancelled.
LiveTickers(s, n) ==
    {i \in DOMAIN workers :
        /\ workers[i].srv = s
        /\ workers[i].name = n
        /\ workers[i].pc \notin {"done", "panic"}
        /\ ~workers[i].ctxDone}

\* C11: in every reachable state of a MaintainJobs, whatever Start and Stop
\* calls were made, at most one live ticker worker exists per job name (a
\* config naming a started job being refused as duplicated).
C11_OneTickerPerName ==
    \A n \in Jobs : Cardinality(LiveTickers("s1", n)) <= 1

\* C12: a failure inside execute() is confined to its tick: whenever a worker
\* leaves execute(), by a return or by a panic, it is waiting for its next
\* tick again.
C12_FailureKeepsTicker ==
    [][\A i \in DOMAIN workers :
          (workers[i].pc = "execute" /\ workers'[i].pc # "execute")
              => workers'[i].pc = "wait"]_vars

\* C16: once the context of a worker is cancelled, no tick it handles starts
\* execute() or clear(), also when the tick was pending at the cancellation;
\* an execute() in progress is not interrupted by the cancellation, and
\* StopMaintainJobs calls neither clear() nor execute().
C16_NoBodyAfterCancel ==
    [][/\ \A i \in DOMAIN workers :
             /\ HandlesTick(i) => ~workers[i].ctxDone
             /\ (workers[i].pc = "execute" /\ workers[i].ctxDone)
                   => workers'[i].pc # "done"
       /\ StopMaintainJobs("s1") =>
             \A i \in DOMAIN workers :
                 /\ workers'[i].pc = workers[i].pc
                 /\ workers'[i].calls = workers[i].calls]_vars

\* Worker i is inside a body of f.
InBody(i) == workers[i].pc \in {"execute", "clear"}

\* A worker other than i is inside a body of f.
OtherInBody(i) == \E j \in DOMAIN workers \ {i} : InBody(j)

\* The goroutine w is inside at most one call, and it is the call of its pc.
OneBody(w) ==
    /\ w.calls.clear + w.calls.execute <= 1
    /\ w.pc = "execute" <=> w.calls.execute = 1
    /\ w.pc = "clear" <=> w.calls.clear = 1

\* C19: a worker is inside at most one body at a time, also when a tick has
\* fired during the body: that tick waits in the channel and has started
\* nothing; and whatever body another worker is in, a worker with a pending
\* tick can handle it and a ticker with room in its channel can fire.
C19_BodiesSerialized ==
    \A i \in DOMAIN workers :
        /\ OneBody(workers[i])
        /\ (InBody(i) /\ workers[i].tick) =>
              workers[i].calls.clear + workers[i].calls.execute = 1
        /\ (Quiet /\ Up(workers[i].srv) /\ OtherInBody(i)) =>
              /\ (workers[i].pc = "wait" /\ workers[i].tick)
                    => ENABLED JobTick(i)
              /\ (workers[i].pc \notin {"done", "panic"} /\ ~workers[i].tick)
                    => ENABLED TickerFire(i)

\* A tick has fired while a worker is inside execute() and waits in the
\* channel; the worker of another job is inside a body at the same time.
C19_Witness ==
    \E i, j \in DOMAIN workers :
        /\ workers[i].name # workers[j].name
        /\ workers[i].pc = "execute"
        /\ workers[i].tick
        /\ InBody(j)

----------------------------------------------------------------------------
(* Properties of StartMaintianJobs *)

\* The StartMaintianJobs call of s1 that is about to return, with the history
\* of its last turn.
Returning == starting["s1"].active /\ starting["s1"].left = 0
LastTurn == starting["s1"]

\* This step is the last turn of a StartMaintianJobs call of s1.
IsLastTurn ==
    /\ starting["s1"].active
    /\ starting["s1"].left > 0
    /\ starting'["s1"].active
    /\ starting'["s1"].left = 0

AllCalls == <<"init", "StartLeaderElection", "runAdminJob">>

\* C13: a turn over an enabled config ends the call with an error, and
\* launches no ticker, when the name is not registered, when init fails or
\* when StartLeaderElection fails, and no ticker of the call then runs that
\* job; a disabled config makes no call and no error, whatever its name; a
\* ticker is launched only by a turn that called init, then
\* StartLeaderElection, and it has made no leader check when it is launched.
C13_StartErrors ==
    /\ [](Returning =>
            /\ ~LastTurn.enable => (LastTurn.err = "" /\ LastTurn.did = << >>)
            /\ (LastTurn.enable /\ LastTurn.name \notin Jobs)
                  => (LastTurn.err = "not exist" /\ LastTurn.did = << >>)
            /\ LastTurn.err = "fail to init" => LastTurn.did = <<"init">>
            /\ LastTurn.err = "election"
                  => LastTurn.did = <<"init", "StartLeaderElection">>
            /\ LastTurn.err = "" =>
                  (LastTurn.enable => LastTurn.did = AllCalls)
            /\ LastTurn.err \in {"not exist", "fail to init", "election"} =>
                  \A i \in cancel["s1"].scope : workers[i].name # LastTurn.name)
    /\ [][/\ IsLastTurn =>
                /\ (starting'["s1"].err # "" \/ ~starting'["s1"].enable) =>
                      /\ workers' = workers
                      /\ startedJobs' = startedJobs
                      /\ cancel' = cancel
                /\ starting'["s1"].did = AllCalls <=>
                      Len(workers') = Len(workers) + 1
          /\ Len(workers') > Len(workers) =>
                /\ starting["s1"].active /\ starting["s1"].left > 0
                /\ Len(workers') = Len(workers) + 1
                /\ workers'[Len(workers')].pc = "wait"
                /\ workers'[Len(workers')].calls = NoCalls
                /\ ~workers'[Len(workers')].tick
                /\ workers'[Len(workers')].name \in startedJobs'["s1"]
                /\ workers'[Len(workers')].name \notin startedJobs["s1"]
                /\ \A i \in DOMAIN workers : workers'[i] = workers[i]]_vars

\* A call started one job and then returns the error of the init of the next,
\* for which no ticker was ever launched.
C13_Witness ==
    /\ Returning
    /\ LastTurn.err = "fail to init"
    /\ LastTurn.did = <<"init">>
    /\ cancel["s1"].scope # {}
    /\ \A i \in DOMAIN workers : workers[i].name # LastTurn.name

----------------------------------------------------------------------------
(* Properties of the heartbeat access calls *)

LastRpc == rpcRet[1]

\* The cur_time_sec stored for id, 0 without record.
StoredTime(records, id) ==
    IF id \in DOMAIN records THEN records[id].CurTimeSec ELSE 0

\* C14: BatchGetHeartbeat over the memory checker answers one record per
\* requested id, in request order, with last_heartbeat_sec the stored
\* cur_time_sec (0 without record) and exist true exactly when a record is
\* stored; without a checker it answers the empty response, and a failed
\* query leaves only the error.
C14_GetHeartbeatExact ==
    (rpcRet # << >> /\ LastRpc.op = "get") =>
        IF ~registered
        THEN LastRpc.out = [err |-> FALSE, records |-> << >>]
        ELSE IF LastRpc.failAt # 0
        THEN LastRpc.out = [err |-> TRUE, records |-> << >>]
        ELSE /\ ~LastRpc.out.err
             /\ Len(LastRpc.out.records) = Len(LastRpc.ids)
             /\ \A i \in 1 .. Len(LastRpc.ids) :
                   LastRpc.out.records[i] =
                      [InstanceId |-> LastRpc.ids[i],
                       LastHeartbeatSec |-> StoredTime(hbRecords, LastRpc.ids[i]),
                       Exist |-> LastRpc.ids[i] \in DOMAIN hbRecords]

\* The ids at the positions before i of a list.
IdsBefore(ids, i) == {ids[j] : j \in 1 .. (i - 1)}

\* Every id but those of the set is stored, or missing, as before the call.
Untouched(before, gone) ==
    \A k \in InstanceIds \ gone :
        /\ k \in DOMAIN hbRecords <=> k \in DOMAIN before
        /\ k \in DOMAIN before => hbRecords[k] = before[k]

\* C15: BatchDelHeartbeat deletes in request order and stops at the first
\* failed Delete: it then returns the error, the ids before that position are
\* gone (a query reports them missing) and every other id is as it was; when
\* no Delete fails all requested ids are gone and the others are as they
\* were; without a checker it answers ok and changes nothing.
C15_DelAborts ==
    (rpcRet # << >> /\ LastRpc.op = "del") =>
        LET ids == LastRpc.ids
            f == LastRpc.failAt
            gone == IF f # 0 THEN IdsBefore(ids, f)
                    ELSE IdsBefore(ids, Len(ids) + 1)
        IN  IF ~registered
            THEN ~LastRpc.out.err /\ hbRecords = LastRpc.before
            ELSE /\ LastRpc.out.err <=> f # 0
                 /\ \A k \in gone :
                       /\ k \notin DOMAIN hbRecords
                       /\ getRecord(hbRecords, k).LastHeartbeatSec = 0
                 /\ Untouched(LastRpc.before, gone)

\* The Delete of the second of two stored ids failed: the first is gone, the
\* second is still stored.
C15_Witness ==
    /\ rpcRet # << >>
    /\ LastRpc.op = "del"
    /\ registered
    /\ LastRpc.failAt = 2
    /\ LastRpc.out.err
    /\ LastRpc.ids[1] # LastRpc.ids[2]
    /\ LastRpc.ids[1] \in DOMAIN LastRpc.before
    /\ LastRpc.ids[1] \notin DOMAIN hbRecords
    /\ LastRpc.ids[2] \in DOMAIN hbRecords

\* Job name n has, on s1, a ticker that runs and whose context is not
\* cancelled.
Ticking(n) == LiveTickers("s1", n) # {}

\* C20: StartMaintianJobs does not undo what it did when it returns an error:
\* the jobs it launched before the failing config stay in startedJobs, stay
\* campaigning and keep their running, uncancelled tickers, until
\* StopMaintainJobs; the error ends the loop; StopMaintainJobs empties
\* startedJobs, and a turn over an enabled, registered name that is not in
\* startedJobs is never refused as duplicated: it calls init, and
\* StartLeaderElection after it.
C20_StartNotAtomic ==
    /\ [](/\ \A n \in startedJobs["s1"] : Ticking(n) /\ Campaigning("s1", n)
          /\ (Returning /\ LastTurn.err # "") =>
                \A i \in cancel["s1"].scope :
                    /\ workers[i].name \in startedJobs["s1"]
                    /\ ~workers[i].ctxDone
                    /\ workers[i].pc # "done")
    /\ [][/\ (Returning /\ starting'["s1"] # starting["s1"]) =>
                /\ starting'["s1"] = NoStart
                /\ workers' = workers
                /\ startedJobs' = startedJobs
                /\ cancel' = cancel
          /\ (IsLastTurn /\ starting'["s1"].err # "") =>
                /\ workers' = workers
                /\ startedJobs' = startedJobs
                /\ cancel' = cancel
          /\ StopMaintainJobs("s1") => startedJobs'["s1"] = {}
          /\ (\E i \in DOMAIN workers : workers'[i].ctxDone /\ ~workers[i].ctxDone)
                => startedJobs'["s1"] = {}
          /\ (/\ IsLastTurn
              /\ starting'["s1"].enable
              /\ starting'["s1"].name \in Jobs
              /\ starting'["s1"].name \notin startedJobs["s1"]) =>
                /\ starting'["s1"].err \in {"", "fail to init", "election"}
                /\ starting'["s1"].did # << >>
                /\ starting'["s1"].did[1] = "init"
                /\ starting'["s1"].err = "" => starting'["s1"].did = AllCalls]_vars

\* After a Stop, a Start launched a job that had been started and cancelled
\* before, and then returns an error for a later config: the job launched
\* again stays started and ticking.
C20_Witness ==
    /\ Returning
    /\ LastTurn.err # ""
    /\ \E i \in cancel["s1"].scope, j \in DOMAIN workers :
          /\ workers[j].ctxDone
          /\ workers[j].name = workers[i].name
          /\ ~workers[i].ctxDone
          /\ workers[i].name \in startedJobs["s1"]

====
